---- MODULE Spec2Model ----
(***************************************************************************)
(* Frontmatter handling of the obsidian-docsystem scripts:                 *)
(*   scripts/chatgpt_summary.py     (the summarizer)                       *)
(*   scripts/update_timestamps.py   (the timestamp updater)                *)
(*   scripts/metadata_extractor.py  (the indexer)                          *)
(*                                                                         *)
(* A text is the pair of its lines (what str.splitlines returns) and       *)
(* whether it ends with a newline.  A line is a record: its kind, and for  *)
(* the kinds that carry one, a key and the text of a YAML scalar with its  *)
(* quoting.  The lines of the model are                                    *)
(*     ---            [k = "marker", txt = ""]                             *)
(*     ---<space>     [k = "marker", txt = " "]                            *)
(*     (empty line)   [k = "blank"]                                        *)
(*     key: scalar    [k = "kv"], quoted with '...' when q                 *)
(*     key:           [k = "keyonly"]                                      *)
(*     - scalar       [k = "item"]                                         *)
(*     Hello          [k = "text"]                                         *)
(*     a: [           [k = "bad"]   (an unclosed flow sequence)            *)
(*     {}             [k = "flowempty"]                                    *)
(***************************************************************************)
EXTENDS Integers, Sequences, FiniteSets, TLC

\* ---------------------------------------------------------------- bounds

\* Longest document, in lines, that a behaviour starts from.
MaxLines == 4

\* Most Markdown files the documentation tree holds.
MaxFiles == 3

\* ----------------------------------------------------------------- lines

Line(k, key, txt, q) == [k |-> k, key |-> key, txt |-> txt, q |-> q]

Marker      == Line("marker", "", "", FALSE)
MarkerSpace == Line("marker", "", " ", FALSE)
Blank       == Line("blank", "", "", FALSE)
KV(key, txt, q) == Line("kv", key, txt, q)
KeyOnly(key)    == Line("keyonly", key, "", FALSE)
Item(txt)       == Line("item", "", txt, FALSE)
TextLine        == Line("text", "", "Hello", FALSE)
BadLine         == Line("bad", "", "", FALSE)
FlowEmpty       == Line("flowempty", "", "", FALSE)

\* str.strip() of one line: surrounding whitespace removed.  Only the marker
\* line of the model carries any.
strip_line(l) == IF l.k = "marker" THEN Marker ELSE l

FRONTMATTER_DELIMITER == Marker

\* ----------------------------------------------------------------- texts

Text(lines, nl) == [lines |-> lines, nl |-> nl]

EmptyText == Text(<<>>, FALSE)

\* A text has one representation: without a final newline its last line is
\* not empty, and the empty string has no line.
IsText(t) ==
    /\ t.lines = <<>> => ~t.nl
    /\ (~t.nl /\ t.lines # <<>>) => t.lines[Len(t.lines)] # Blank

\* text.splitlines()
splitlines(t) == t.lines

Front(s) == SubSeq(s, 1, Len(s) - 1)

\* "\n".join(lines): a last empty line shows as a final newline.
join(ls) ==
    IF ls = <<>> THEN EmptyText
    ELSE IF ls[Len(ls)] = Blank
         THEN (IF Len(ls) = 1 THEN EmptyText ELSE Text(Front(ls), TRUE))
         ELSE Text(ls, FALSE)

\* prefix + t, where prefix is whole lines, each ended by its newline.
prepend(prefix, t) ==
    IF t.lines = <<>> THEN (IF prefix = <<>> THEN EmptyText ELSE Text(prefix, TRUE))
    ELSE Text(prefix \o t.lines, t.nl)

\* t + "\n"
append_newline(t) ==
    IF t.nl \/ t.lines = <<>> THEN Text(t.lines \o <<Blank>>, TRUE)
    ELSE Text(t.lines, TRUE)

RECURSIVE drop_leading_blank(_)
drop_leading_blank(ls) ==
    IF ls # <<>> /\ ls[1] = Blank THEN drop_leading_blank(Tail(ls)) ELSE ls

RECURSIVE drop_trailing_blank(_)
drop_trailing_blank(ls) ==
    IF ls # <<>> /\ ls[Len(ls)] = Blank THEN drop_trailing_blank(Front(ls)) ELSE ls

\* text.strip(): leading and trailing whitespace (blank lines, the final
\* newline, the spaces ending the last line) removed.
strip_text(t) ==
    LET ls == drop_trailing_blank(drop_leading_blank(t.lines))
        n  == Len(ls)
    IN  IF n = 0 THEN EmptyText
        ELSE Text([i \in 1..n |-> IF i = n /\ ls[i].k = "marker" THEN Marker ELSE ls[i]],
                  FALSE)

\* lines[1:].index("---") + 1, as a position of the model's 1-based lines
\* (0: ValueError, no such line).  The comparison is with the line as it is.
RECURSIVE index_from(_, _, _)
index_from(ls, x, i) ==
    IF i > Len(ls) THEN 0
    ELSE IF ls[i] = x THEN i
    ELSE index_from(ls, x, i + 1)

\* The indexer's loop: the first line after the opening one whose strip()
\* is the marker (0: the loop ran to the end).
RECURSIVE first_stripped_marker(_, _)
first_stripped_marker(ls, i) ==
    IF i > Len(ls) THEN 0
    ELSE IF strip_line(ls[i]) = Marker THEN i
    ELSE first_stripped_marker(ls, i + 1)

\* ------------------------------------------------------------------ YAML

\* str(date.today()) of the days a behaviour runs through.
Days == {1, 2}
DayStr(d) == IF d = 1 THEN "2024-01-01" ELSE "2024-01-02"
DateTexts == {DayStr(d) : d \in Days}

\* A Python value that YAML loads: str, datetime.date, bool, None, list.
Value(t, s, items) == [t |-> t, s |-> s, items |-> items]
PyStr(s)   == Value("str", s, <<>>)
PyDate(s)  == Value("date", s, <<>>)
PyTrue     == Value("bool", "true", <<>>)
PyNone     == Value("null", "", <<>>)
PyList(vs) == Value("seq", "", vs)

\* The implicit resolvers of yaml.safe_load on one scalar: a quoted scalar is
\* a str; a plain one is a date, a bool or None when it reads as one.
resolve_scalar(txt, q) ==
    IF q THEN PyStr(txt)
    ELSE IF txt \in DateTexts THEN PyDate(txt)
    ELSE IF txt \in {"true", "yes"} THEN PyTrue
    ELSE IF txt \in {"null", ""} THEN PyNone
    ELSE PyStr(txt)

\* A mutation of represent_scalar: a str is always written plain.
represent_scalar_never_quotes(v) ==
    CASE v.t = "str"  -> <<v.s, FALSE>>
      [] v.t = "date" -> <<v.s, FALSE>>
      [] v.t = "bool" -> <<"true", FALSE>>
      [] OTHER        -> <<"null", FALSE>>

\* yaml.safe_dump of one scalar value, as <<text, quoted>>: a str is quoted
\* when its plain form would load as something else.
represent_scalar(v) ==
    CASE v.t = "str"  -> <<v.s, resolve_scalar(v.s, FALSE).t # "str">>
      [] v.t = "date" -> <<v.s, FALSE>>
      [] v.t = "bool" -> <<"true", FALSE>>
      [] OTHER        -> <<"null", FALSE>>

\* A dict, in insertion order: a sequence of [key, val] with distinct keys.
Pair(key, val) == [key |-> key, val |-> val]
EmptyDict == <<>>

dict_keys(d) == [i \in 1..Len(d) |-> d[i].key]

dict_has(d, key) == \E i \in 1..Len(d) : d[i].key = key

\* d.get(key): None when the key is absent.
dict_get(d, key) ==
    IF dict_has(d, key)
    THEN (CHOOSE p \in {d[i] : i \in 1..Len(d)} : p.key = key).val
    ELSE PyNone

\* A mutation of dict_set: the assigned key moves to the end.
dict_set_moves_to_end(d, key, val) ==
    SelectSeq(d, LAMBDA p : p.key # key) \o <<Pair(key, val)>>

\* d[key] = val: an existing key keeps its place, a new one goes last.
dict_set(d, key, val) ==
    IF dict_has(d, key)
    THEN [i \in 1..Len(d) |-> IF d[i].key = key THEN Pair(key, val) ELSE d[i]]
    ELSE Append(d, Pair(key, val))

\* What yaml.safe_load returns: a dict ("map"), another value ("other"),
\* None ("none"), or it raises yaml.YAMLError ("error").  The other values
\* of the model (a scalar of text, a list with items) are truthy, so
\* `safe_load(...) or {}` is {} for "none" alone.
Loaded(r, d) == [r |-> r, dict |-> d]

\* The block sequence after "key:": the items that follow it.
RECURSIVE take_items(_)
take_items(ls) ==
    IF ls # <<>> /\ ls[1].k = "item"
    THEN <<resolve_scalar(ls[1].txt, ls[1].q)>> \o take_items(Tail(ls))
    ELSE <<>>

\* A block mapping at column 0, entry by entry.
RECURSIVE load_mapping(_, _)
load_mapping(ls, acc) ==
    IF ls = <<>> THEN Loaded("map", acc)
    ELSE IF ls[1].k = "kv"
         THEN load_mapping(Tail(ls),
                           dict_set(acc, ls[1].key, resolve_scalar(ls[1].txt, ls[1].q)))
    ELSE IF ls[1].k = "keyonly"
         THEN LET items == take_items(Tail(ls))
                  rest  == SubSeq(ls, 2 + Len(items), Len(ls))
              IN  load_mapping(rest,
                               dict_set(acc, ls[1].key,
                                        IF items = <<>> THEN PyNone ELSE PyList(items)))
    ELSE Loaded("error", EmptyDict)

has_kind(ls, kinds) == \E i \in 1..Len(ls) : ls[i].k \in kinds

\* One document's content (no blank line, no --- line).
load_document(ls) ==
    IF ls = <<>> THEN Loaded("none", EmptyDict)
    ELSE IF has_kind(ls, {"bad"}) THEN Loaded("error", EmptyDict)
    ELSE IF ls[1].k = "flowempty"
         THEN (IF Len(ls) = 1 THEN Loaded("map", EmptyDict) ELSE Loaded("error", EmptyDict))
    ELSE IF ls[1].k = "text"
         \* a plain scalar runs on over the following lines; a "key:" in it
         \* is "mapping values are not allowed here"
         THEN (IF has_kind(Tail(ls), {"kv", "keyonly"})
               THEN Loaded("error", EmptyDict) ELSE Loaded("other", EmptyDict))
    ELSE IF ls[1].k = "item"
         THEN (IF \A i \in 1..Len(ls) : ls[i].k = "item"
               THEN Loaded("other", EmptyDict) ELSE Loaded("error", EmptyDict))
    ELSE load_mapping(ls, EmptyDict)

\* yaml.safe_load(block): blank lines do not count; a --- line (with or
\* without spaces after it) starts a document, and a second document in the
\* stream is a ComposerError.
safe_load(block) ==
    LET content == SelectSeq(block, LAMBDA l : l.k # "blank")
        body    == IF content # <<>> /\ content[1].k = "marker" THEN Tail(content)
                   ELSE content
    IN  IF has_kind(body, {"marker"}) THEN Loaded("error", EmptyDict)
        ELSE load_document(body)

\* One entry of yaml.safe_dump's block mapping: "key: scalar", or "key:" and
\* one "- item" line for each element of a list.
dump_value(key, v) ==
    IF v.t = "seq"
    THEN <<KeyOnly(key)>>
         \o [i \in 1..Len(v.items) |->
                Line("item", "", represent_scalar(v.items[i])[1],
                     represent_scalar(v.items[i])[2])]
    ELSE <<KV(key, represent_scalar(v)[1], represent_scalar(v)[2])>>

RECURSIVE dump_entries(_)
dump_entries(d) ==
    IF d = <<>> THEN <<>>
    ELSE dump_value(d[1].key, d[1].val) \o dump_entries(Tail(d))

\* yaml.safe_dump(d, sort_keys=False), its final newline stripped: the
\* entries in the dict's order, {} for an empty dict.
safe_dump(d) ==
    IF d = <<>> THEN <<FlowEmpty>> ELSE dump_entries(d)

\* ---------------------------------------------------------------- decode

Decoded(meta, body) == [meta |-> meta, body |-> body]

\* chatgpt_summary.extract_frontmatter, on the text read from the path.
extract_frontmatter(text) ==
    LET lines == splitlines(text)
        end   == index_from(lines, Marker, 2)
        yaml_block == SubSeq(lines, 2, end - 1)
        body  == join(SubSeq(lines, end + 1, Len(lines)))
        meta  == safe_load(yaml_block)
    IN  IF lines = <<>> \/ strip_line(lines[1]) # Marker THEN Decoded(EmptyDict, text)
        ELSE IF end = 0 THEN Decoded(EmptyDict, text)
        ELSE IF meta.r = "map" THEN Decoded(meta.dict, body)
        ELSE Decoded(EmptyDict, body)

\* metadata_extractor.extract_yaml_metadata, on the text of the file.
extract_yaml_metadata(text) ==
    LET lines == splitlines(text)
        stop  == first_stripped_marker(lines, 2)
        yaml_block == IF stop = 0 THEN Tail(lines) ELSE SubSeq(lines, 2, stop - 1)
        data  == safe_load(yaml_block)
    IN  IF lines = <<>> \/ strip_line(lines[1]) # Marker THEN EmptyDict
        ELSE IF data.r = "map" THEN data.dict
        ELSE EmptyDict

\* ---------------------------------------------------------------- encode

\* "---\n" + yaml + "\n---\n\n" + body: the text both writers build
\* (update_timestamps lines 64-69, chatgpt_summary lines 123-126).
encode(meta, body) ==
    prepend(<<Marker>> \o safe_dump(meta) \o <<Marker, Blank>>, body)

\* --------------------------------------------------------- update_timestamps

Outcome(ret, wrote, content) == [ret |-> ret, wrote |-> wrote, content |-> content]

\* A mutation of update_frontmatter: a file whose frontmatter cannot be read
\* is given a fresh block, like a file that has none.
update_frontmatter_fresh_on_malformed(text, today) ==
    LET lines == splitlines(text)
        end_index == index_from(lines, FRONTMATTER_DELIMITER, 2)
        yaml_block == SubSeq(lines, 2, end_index - 1)
        body  == join(SubSeq(lines, end_index + 1, Len(lines)))
        loaded == safe_load(yaml_block)
        meta  == IF loaded.r = "map" THEN loaded.dict ELSE EmptyDict
        modified == dict_get(meta, "updated") # PyStr(today)
        fresh == encode(<<Pair("updated", PyStr(today))>>, append_newline(strip_text(text)))
    IN  IF lines # <<>> /\ strip_line(lines[1]) = FRONTMATTER_DELIMITER
           /\ end_index # 0 /\ loaded.r \notin {"other", "error"}
        THEN IF modified
             THEN Outcome(TRUE, TRUE,
                          encode(dict_set(meta, "updated", PyStr(today)), body))
             ELSE Outcome(FALSE, FALSE, text)
        ELSE Outcome(TRUE, TRUE, fresh)

\* update_timestamps.update_frontmatter on a file holding `text`, on the day
\* whose str() is `today`: what it returns, whether it called write_text,
\* and the file's content afterwards.
update_frontmatter(text, today) ==
    LET lines == splitlines(text)
        end_index == index_from(lines, FRONTMATTER_DELIMITER, 2)
        yaml_block == SubSeq(lines, 2, end_index - 1)
        body  == join(SubSeq(lines, end_index + 1, Len(lines)))
        loaded == safe_load(yaml_block)
        meta  == IF loaded.r = "map" THEN loaded.dict ELSE EmptyDict
        modified == dict_get(meta, "updated") # PyStr(today)
        fresh == encode(<<Pair("updated", PyStr(today))>>, append_newline(strip_text(text)))
    IN  IF lines # <<>> /\ strip_line(lines[1]) = FRONTMATTER_DELIMITER
        THEN IF end_index = 0 THEN Outcome(FALSE, FALSE, text)
             ELSE IF loaded.r \in {"other", "error"} THEN Outcome(FALSE, FALSE, text)
             ELSE IF modified
                  THEN Outcome(TRUE, TRUE,
                               encode(dict_set(meta, "updated", PyStr(today)), body))
                  ELSE Outcome(FALSE, FALSE, text)
        ELSE Outcome(TRUE, TRUE, fresh)

\* ----------------------------------------------------------------- state

VARIABLES
    script,     \* which script the behaviour runs
    file,       \* the text of the Markdown file the script is given
    day,        \* the day date.today() returns
    result,     \* what the last decode returned
    calls,      \* the last two calls of update_frontmatter, oldest first
    pc,         \* where the summarizer is
    API_KEY,    \* whether OPENAI_API_KEY is set
    target,     \* whether the summarizer's input file exists
    summary,    \* the sibling <name>.summary.md
    locals,     \* main's metadata, body and summary_text
    tree,       \* the Markdown files under docs/: path -> text
    index       \* the index the last run of the indexer wrote

vars == <<script, file, day, result, calls, pc, API_KEY, target, summary, locals,
          tree, index>>

codecVars      == <<result>>
updaterVars    == <<day, calls>>
summarizerVars == <<pc, API_KEY, target, summary, locals>>
indexerVars    == <<tree, index>>

\* ------------------------------------------------------------- documents

\* Every text of at most n lines taken from the set `alphabet`.
TextsOver(alphabet, n) ==
    { t \in { Text(ls, nl) : ls \in UNION { [1..m -> alphabet] : m \in 0..n },
                             nl \in BOOLEAN } : IsText(t) }

CodecLines ==
    { Marker, MarkerSpace, Blank, TextLine, BadLine, Item("a"), KeyOnly("tags"),
      KV("title", "Foo", FALSE), KV("updated", DayStr(1), FALSE),
      KV("generated", "yes", FALSE) }

UpdaterLines ==
    { Marker, MarkerSpace, Blank, TextLine, BadLine, Item("a"),
      KV("title", "Foo", FALSE), KV("updated", DayStr(1), FALSE),
      KV("updated", DayStr(1), TRUE) }

\* A file that is not there, a file holding `text`, and the same after the
\* run wrote it.
NoFile == [exists |-> FALSE, text |-> EmptyText, written |-> FALSE]
OldFile(text) == [exists |-> TRUE, text |-> text, written |-> FALSE]
Written(text) == [exists |-> TRUE, text |-> text, written |-> TRUE]

\* replied: call_model has returned (summary_text is assigned).
NoLocals == [metadata |-> EmptyDict, body |-> EmptyText, summary_text |-> EmptyText,
             replied |-> FALSE]

\* The variables of the scripts a behaviour does not run.
CodecIdle      == result = [op |-> "none", meta |-> EmptyDict, body |-> EmptyText,
                            meta2 |-> EmptyDict, body2 |-> EmptyText]
UpdaterIdle    == day = 1 /\ calls = <<>>
SummarizerIdle == /\ pc = "off" /\ API_KEY = FALSE /\ target = FALSE
                  /\ summary = NoFile /\ locals = NoLocals
IndexerIdle    == tree = {} /\ index = [ran |-> FALSE, of |-> {}, sections |-> <<>>]

NoResult == [op |-> "none", meta |-> EmptyDict, body |-> EmptyText,
             meta2 |-> EmptyDict, body2 |-> EmptyText]

\* ------------------------------------------------------ the decoders alone

InitCodec ==
    /\ script = "codec"
    /\ file \in TextsOver(CodecLines, MaxLines)
    /\ CodecIdle /\ UpdaterIdle /\ SummarizerIdle /\ IndexerIdle

\* The summarizer's decode of the file.
Decode ==
    /\ script = "codec"
    /\ result' = [NoResult EXCEPT !.op = "extract_frontmatter",
                                  !.meta = extract_frontmatter(file).meta,
                                  !.body = extract_frontmatter(file).body]
    /\ UNCHANGED <<script, file, updaterVars, summarizerVars, indexerVars>>

\* The indexer's decode of the file.
DecodeIndexer ==
    /\ script = "codec"
    /\ result' = [NoResult EXCEPT !.op = "extract_yaml_metadata",
                                  !.meta = extract_yaml_metadata(file)]
    /\ UNCHANGED <<script, file, updaterVars, summarizerVars, indexerVars>>

\* Decode, encode what was decoded, decode again.
RoundTrip ==
    /\ script = "codec"
    /\ LET first  == extract_frontmatter(file)
           second == extract_frontmatter(encode(first.meta, first.body))
       IN  result' = [op |-> "roundtrip", meta |-> first.meta, body |-> first.body,
                      meta2 |-> second.meta, body2 |-> second.body]
    /\ UNCHANGED <<script, file, updaterVars, summarizerVars, indexerVars>>

NextCodec == Decode \/ DecodeIndexer \/ RoundTrip

SpecCodec == InitCodec /\ [][NextCodec]_vars

\* ------------------------------------------------------ update_timestamps

InitUpdater ==
    /\ script = "update_timestamps"
    /\ file \in TextsOver(UpdaterLines, MaxLines)
    /\ CodecIdle /\ UpdaterIdle /\ SummarizerIdle /\ IndexerIdle

Call(d, before, o) ==
    [day |-> d, before |-> before, ret |-> o.ret, wrote |-> o.wrote, reported |-> o.ret]

remember(cs, c) == IF Len(cs) < 2 THEN Append(cs, c) ELSE <<cs[2], c>>

\* The paths main may be given: the Markdown file, a file that is not
\* Markdown, a path that names no file.
ArgPaths == {"note.md", "note.txt", "gone.md"}
suffix(path) == IF path = "note.txt" THEN ".txt" ELSE ".md"
exists(path) == path # "gone.md"

\* update_timestamps.main with one path on the command line: a path that is
\* not *.md or does not exist is passed over; otherwise update_frontmatter
\* runs on the file and main reports the file exactly when True comes back.
UpdaterMain ==
    /\ script = "update_timestamps"
    /\ \E path \in ArgPaths :
          IF suffix(path) # ".md" \/ ~exists(path)
          THEN UNCHANGED <<file, calls>>
          ELSE LET o == update_frontmatter(file, DayStr(day))
               IN  /\ file' = o.content
                   /\ calls' = remember(calls, Call(day, file, o))
    /\ UNCHANGED <<script, day, codecVars, summarizerVars, indexerVars>>

\* Midnight.
NextDay ==
    /\ script = "update_timestamps"
    /\ day + 1 \in Days
    /\ day' = day + 1
    /\ UNCHANGED <<script, file, calls, codecVars, summarizerVars, indexerVars>>

NextUpdater == UpdaterMain \/ NextDay

SpecUpdater == InitUpdater /\ [][NextUpdater]_vars

\* -------------------------------------------------------- chatgpt_summary

SummarizerLines ==
    { Marker, Blank, TextLine, KV("title", "Foo", FALSE), KV("type", "note", FALSE),
      KV("generated", "yes", FALSE) }

\* What the API may send back as the message's content.
Replies == { Text(<<TextLine>>, TRUE), Text(<<Blank, TextLine, TextLine>>, FALSE) }

\* The summary a previous run left behind.
StaleSummary == OldFile(Text(<<TextLine>>, TRUE))

InitSummarizer ==
    /\ script = "chatgpt_summary"
    /\ file \in TextsOver(SummarizerLines, MaxLines)
    /\ CodecIdle /\ UpdaterIdle /\ IndexerIdle
    /\ pc = "load"
    /\ API_KEY \in BOOLEAN
    /\ target \in BOOLEAN
    /\ summary \in {NoFile, StaleSummary}
    /\ locals = NoLocals

\* Lines 41-49, run when the module is loaded: no key, exit status 1.
LoadModule ==
    /\ pc = "load"
    /\ pc' = IF API_KEY THEN "main" ELSE "exit1"
    /\ UNCHANGED <<script, file, API_KEY, target, summary, locals,
                   codecVars, updaterVars, indexerVars>>

\* main, lines 144-147: no input file, exit status 1.
CheckTarget ==
    /\ pc = "main"
    /\ pc' = IF target THEN "extract" ELSE "exit1"
    /\ UNCHANGED <<script, file, API_KEY, target, summary, locals,
                   codecVars, updaterVars, indexerVars>>

\* main, line 149.
ExtractStep ==
    /\ pc = "extract"
    /\ locals' = [locals EXCEPT !.metadata = extract_frontmatter(file).meta,
                                !.body = extract_frontmatter(file).body]
    /\ pc' = "call"
    /\ UNCHANGED <<script, file, API_KEY, target, summary,
                   codecVars, updaterVars, indexerVars>>

\* A mutation of CallModel: the API's failure is caught and main goes on
\* with an empty summary.
CallModel_swallows_error ==
    /\ pc = "call"
    /\ \/ \E reply \in Replies :
             /\ locals' = [locals EXCEPT !.summary_text = strip_text(reply),
                                         !.replied = TRUE]
             /\ pc' = "write"
       \/ /\ pc' = "write"
          /\ UNCHANGED locals
    /\ UNCHANGED <<script, file, API_KEY, target, summary,
                   codecVars, updaterVars, indexerVars>>

\* main, line 152: call_model returns the reply stripped, or the API call
\* raises and the process ends there.
CallModel ==
    /\ pc = "call"
    /\ \/ \E reply \in Replies :
             /\ locals' = [locals EXCEPT !.summary_text = strip_text(reply),
                                         !.replied = TRUE]
             /\ pc' = "write"
       \/ /\ pc' = "crashed"
          /\ UNCHANGED locals
    /\ UNCHANGED <<script, file, API_KEY, target, summary,
                   codecVars, updaterVars, indexerVars>>

\* The name of the input file, str(source_file.name).
SourceName == "note.md"

\* write_summary's new_meta, lines 115-118.
new_meta(metadata) ==
    dict_set(dict_set(dict_set(metadata, "generated", PyTrue),
                      "source", PyStr(SourceName)),
             "type", PyStr("summary"))

\* main, lines 154-155: write_summary.
WriteSummary ==
    /\ pc = "write"
    /\ summary' = Written(encode(new_meta(locals.metadata), locals.summary_text))
    /\ pc' = "done"
    /\ UNCHANGED <<script, file, API_KEY, target, locals,
                   codecVars, updaterVars, indexerVars>>

NextSummarizer == LoadModule \/ CheckTarget \/ ExtractStep \/ CallModel \/ WriteSummary

SpecSummarizer == InitSummarizer /\ [][NextSummarizer]_vars

\* ------------------------------------------------------ metadata_extractor

DOCS_DIR == "docs"

\* A file of the tree: the directories from docs/ down to it, its name, its
\* text.  OUTPUT_FILE is docs/system/auto-index.md.
TreeFile(dir, name, text) == [dir |-> dir, name |-> name, text |-> text]
OUTPUT_DIR  == <<"system">>
OUTPUT_NAME == "auto-index.md"

is_output(f) == f.dir = OUTPUT_DIR /\ f.name = OUTPUT_NAME

\* file.endswith(".md")
ends_with_md(name) == name \in {"a.md", "b.md", "auto-index.md"}

\* file.replace(".md", "").replace("-", " ").title()
default_title(name) ==
    CASE name = "a.md" -> "A"
      [] name = "b.md" -> "B"
      [] name = "auto-index.md" -> "Auto Index"
      [] OTHER -> name

\* str.lower() of the titles of the model.
lower(title) ==
    CASE title = "A" -> "a"
      [] title = "B" -> "b"
      [] title = "Auto Index" -> "auto index"
      [] OTHER -> title

\* Python's order of str, on the strings of the model.
StrOrder == <<"", "a", "alpha", "api", "auto index", "b", "docs", "system">>
rank(str) == CHOOSE i \in 1..Len(StrOrder) : StrOrder[i] = str
str_le(a, b) == rank(a) <= rank(b)

\* full_path.replace("\\", "/").replace("docs/", ""), as path segments: the
\* replace takes out every "docs/" of the path, the root's and that of any
\* directory below it called docs.
rel_path(f) == SelectSeq(<<DOCS_DIR>> \o f.dir, LAMBDA seg : seg # "docs") \o <<f.name>>

\* rel_path.split("/")[0] if "/" in rel_path else ""
section_of(rel) == IF Len(rel) > 1 THEN rel[1] ELSE ""

\* d.get(key, default) for the str-valued fields of the model.
get_str(d, key, default) == IF dict_has(d, key) THEN dict_get(d, key).s ELSE default

\* One entry of collect_documents' list, lines 63-75.
document(f) ==
    LET meta == extract_yaml_metadata(f.text)
        rel  == rel_path(f)
    IN  [ file    |-> [dir |-> f.dir, name |-> f.name],
          path    |-> rel,
          title   |-> IF dict_has(meta, "title") /\ dict_get(meta, "title").s # ""
                      THEN dict_get(meta, "title").s ELSE default_title(f.name),
          status  |-> get_str(meta, "status", "draft"),
          updated |-> get_str(meta, "updated", "n/a"),
          version |-> get_str(meta, "version", ""),
          section |-> section_of(rel) ]

\* Line 62: the files collect_documents takes.
collected(f) == ends_with_md(f.name) /\ f.name # "auto-index.md"

\* The orders os.walk may list the collected files in: docs/ itself first,
\* then its directories, the files of one directory together.
WalkOrders(files) ==
    LET fs == {f \in files : collected(f)}
        n  == Cardinality(fs)
    IN  { o \in [1..n -> fs] :
            /\ \A i, j \in 1..n : i # j => o[i] # o[j]
            /\ \A i, j \in 1..n : (i < j /\ o[j].dir = <<>>) => o[i].dir = <<>>
            /\ \A i, j, k \in 1..n : (i < j /\ j < k /\ o[i].dir = o[k].dir)
                                        => o[j].dir = o[i].dir }

\* collect_documents, given the order of the walk.
collect_documents(order) == [i \in 1..Len(order) |-> document(order[i])]

\* sorted(items, key=lambda x: x["title"].lower()): stable insertion.
RECURSIVE insert_by_title(_, _)
insert_by_title(sorted, d) ==
    IF sorted = <<>> THEN <<d>>
    ELSE IF str_le(lower(sorted[Len(sorted)].title), lower(d.title))
         THEN Append(sorted, d)
         ELSE Append(insert_by_title(Front(sorted), d), sorted[Len(sorted)])

RECURSIVE sorted_by_title(_)
sorted_by_title(docs) ==
    IF docs = <<>> THEN <<>>
    ELSE insert_by_title(sorted_by_title(Front(docs)), docs[Len(docs)])

\* sorted(section_map.items(), key=lambda x: x[0]): the sections in order.
RECURSIVE sorted_sections(_)
sorted_sections(names) ==
    IF names = {} THEN <<>>
    ELSE LET least == CHOOSE a \in names : \A b \in names : str_le(a, b)
         IN  <<least>> \o sorted_sections(names \ {least})

\* generate_index, lines 95-127: the sections written, each with its
\* bullets in the order written.
generate_index(docs) ==
    LET names == {docs[i].section : i \in 1..Len(docs)}
        order == sorted_sections(names)
    IN  [i \in 1..Len(order) |->
            [section |-> order[i],
             items   |-> sorted_by_title(SelectSeq(docs, LAMBDA d : d.section = order[i]))]]

\* The text of the index file: the frontmatter of lines 85-90, and a body.
IndexText ==
    Text(<<Marker, KV("title", "Auto-Generated Index", FALSE),
           KV("updated", DayStr(1), FALSE), KV("status", "generated", FALSE),
           KV("type", "index", FALSE), Marker, Blank, TextLine>>, TRUE)

TreeDirs  == {<<>>, <<"api">>, <<"docs">>}
TreeNames == {"a.md", "b.md", "auto-index.md", "n.txt"}
TreeTexts == { Text(<<TextLine>>, TRUE),
               Text(<<Marker, KV("title", "alpha", FALSE), Marker, TextLine>>, TRUE) }

InitIndexer ==
    /\ script = "metadata_extractor"
    /\ file = EmptyText
    /\ CodecIdle /\ UpdaterIdle /\ SummarizerIdle /\ IndexerIdle

\* Somebody adds a file to the documentation tree.
AddFile ==
    /\ script = "metadata_extractor"
    /\ Cardinality({f \in tree : ~is_output(f)}) < MaxFiles
    /\ \E dir \in TreeDirs, name \in TreeNames, text \in TreeTexts :
          /\ \A f \in tree : ~(f.dir = dir /\ f.name = name)
          /\ tree' = tree \cup {TreeFile(dir, name, text)}
    /\ UNCHANGED <<script, file, index, codecVars, updaterVars, summarizerVars>>

\* metadata_extractor.main: collect_documents, then generate_index, which
\* (re)writes OUTPUT_FILE.
RunIndexer ==
    /\ script = "metadata_extractor"
    /\ \E order \in WalkOrders(tree) :
          index' = [ran |-> TRUE, of |-> tree,
                    sections |-> generate_index(collect_documents(order))]
    /\ tree' = {f \in tree : ~is_output(f)}
                  \cup {TreeFile(OUTPUT_DIR, OUTPUT_NAME, IndexText)}
    /\ UNCHANGED <<script, file, codecVars, updaterVars, summarizerVars>>

NextIndexer == AddFile \/ RunIndexer

SpecIndexer == InitIndexer /\ [][NextIndexer]_vars

\* ------------------------------------- the updater and the summarizer

\* Either script run on the file: what the claims about writing a merged
\* mapping are checked under.
InitMerge == InitUpdater \/ InitSummarizer

NextMerge == NextUpdater \/ NextSummarizer

SpecMerge == InitMerge /\ [][NextMerge]_vars

\* ================================================================ claims

\* The text opens with a marker line (after strip()).
has_leading_marker(text) ==
    text.lines # <<>> /\ strip_line(text.lines[1]) = Marker

\* The first later line that is the marker once stripped (0: none).
closing_line(text) == first_stripped_marker(text.lines, 2)

\* The lines strictly between the opening line and line j, and those after j.
block_before(text, j) == SubSeq(text.lines, 2, j - 1)
body_after(text, j)   == join(SubSeq(text.lines, j + 1, Len(text.lines)))

\* The keys a text's metadata block lists, in the order of its lines.
keys_listed(text) ==
    LET j   == closing_line(text)
        kls == SelectSeq(block_before(text, j), LAMBDA l : l.k \in {"kv", "keyonly"})
    IN  [i \in 1..Len(kls) |-> kls[i].key]

\* The last call of update_frontmatter.
last_call == calls[Len(calls)]

\* C1 (as claimed): a document with a terminated, mapping-valued metadata
\* block, decoded, encoded unchanged and decoded again, gives the same
\* metadata and the same body as the first decode.
C1_RoundTrip ==
    ( /\ result.op = "roundtrip"
      /\ has_leading_marker(file)
      /\ closing_line(file) # 0
      /\ file.lines[closing_line(file)] = Marker
      /\ safe_load(block_before(file, closing_line(file))).r = "map" )
    => (result.meta2 = result.meta /\ result.body2 = result.body)

\* C2: two calls of update_frontmatter on the same day, the first of which
\* wrote the file: the second writes nothing, returns False and leaves the
\* file as the first left it.
C2_SecondCallSameDayWritesNothing ==
    ( /\ Len(calls) = 2
      /\ calls[1].day = calls[2].day
      /\ calls[1].wrote )
    => ( /\ ~calls[2].wrote
         /\ calls[2].ret = FALSE
         /\ file = calls[2].before )

\* C2's case: a file with a frontmatter block, written by the first of two
\* calls on one day.
C2_Witness ==
    /\ Len(calls) = 2
    /\ calls[1].day = calls[2].day
    /\ calls[1].wrote
    /\ has_leading_marker(calls[1].before)
    /\ calls[1].before.lines # file.lines

\* C3 (as claimed): a block between an opening and a closing marker that is
\* invalid YAML or not a mapping decodes to empty metadata and the whole
\* original text as body.
C3_MalformedBlock ==
    ( /\ result.op = "extract_frontmatter"
      /\ has_leading_marker(file)
      /\ closing_line(file) # 0
      /\ file.lines[closing_line(file)] = Marker
      /\ safe_load(block_before(file, closing_line(file))).r \in {"error", "other"} )
    => (result.meta = EmptyDict /\ result.body = file)

\* C4 (as claimed): a document that opens with the marker and has no later
\* marker line decodes to empty metadata in the summarizer (with the whole
\* text as body) and in the indexer.
C4_MissingClosingMarker ==
    (has_leading_marker(file) /\ closing_line(file) = 0)
    => ( /\ result.op = "extract_frontmatter"
            => (result.meta = EmptyDict /\ result.body = file)
         /\ result.op = "extract_yaml_metadata" => result.meta = EmptyDict )

\* C5 (as claimed): the block ends at the first later line that is the
\* marker once stripped; a mapping between the two marker lines is the
\* metadata, and the lines after the closing one are the body.
C5_ClosingMarker ==
    ( /\ has_leading_marker(file)
      /\ closing_line(file) # 0
      /\ safe_load(block_before(file, closing_line(file))).r = "map" )
    => LET j == closing_line(file)
           m == safe_load(block_before(file, j)).dict
       IN  /\ result.op = "extract_frontmatter"
              => (result.meta = m /\ result.body = body_after(file, j))
           /\ result.op = "extract_yaml_metadata" => result.meta = m

\* What the frontmatter of a text decodes to for the updater: the block up
\* to the first exact marker line.
updater_end(text)  == index_from(text.lines, FRONTMATTER_DELIMITER, 2)
updater_load(text) == safe_load(block_before(text, updater_end(text)))

\* The file's frontmatter decodes to a mapping (an empty block is the
\* empty mapping).
decodes_to_mapping(text) ==
    /\ has_leading_marker(text)
    /\ updater_end(text) # 0
    /\ updater_load(text).r \in {"map", "none"}

\* The `updated` value the file holds is the date `today`, written plain
\* (2024-01-01) or quoted ('2024-01-01').
updated_is(text, today) ==
    /\ dict_has(updater_load(text).dict, "updated")
    /\ dict_get(updater_load(text).dict, "updated").t \in {"str", "date"}
    /\ dict_get(updater_load(text).dict, "updated").s = today

\* C6 (as claimed): on a file whose frontmatter decodes to a mapping,
\* update_frontmatter writes nothing and returns False when `updated` is
\* already today's date, and otherwise writes the file with `updated` set to
\* today and returns True; main reports the file exactly when it was written.
C6_WritesOnlyOnChange ==
    (calls # <<>> /\ decodes_to_mapping(last_call.before))
    => /\ last_call.ret = last_call.wrote
       /\ last_call.reported = last_call.wrote
       /\ IF updated_is(last_call.before, DayStr(last_call.day))
          THEN ~last_call.wrote /\ file = last_call.before
          ELSE last_call.wrote /\ updated_is(file, DayStr(last_call.day))

\* The file has no metadata for the updater to merge into: no leading
\* marker line, or a block that is unterminated, malformed or not a mapping.
no_metadata(text) ==
    \/ ~has_leading_marker(text)
    \/ closing_line(text) = 0
    \/ /\ text.lines[closing_line(text)] = Marker
       /\ safe_load(block_before(text, closing_line(text))).r \in {"error", "other"}

\* The block holding only `updated` = today, then one blank line.
fresh_block(today) == <<Marker, KV("updated", today, TRUE), Marker, Blank>>

RECURSIVE without_leading_blank(_)
without_leading_blank(ls) ==
    IF ls # <<>> /\ ls[1].k = "blank" THEN without_leading_blank(Tail(ls)) ELSE ls

trimmed(text) ==
    LET a == without_leading_blank(text.lines)
        n == CHOOSE m \in 0..Len(a) :
                /\ \A i \in (m + 1)..Len(a) : a[i].k = "blank"
                /\ m > 0 => a[m].k # "blank"
        b == [i \in 1..n |-> IF i = n THEN strip_line(a[i]) ELSE a[i]]
    IN  IF n = 0 THEN Text(<<Blank>>, TRUE) ELSE Text(b, TRUE)

C8_NoSummaryWithoutReply ==
    /\ summary.written => (pc = "done" /\ API_KEY /\ target /\ locals.replied)
    /\ pc \in {"exit1", "crashed"} => summary \in {NoFile, StaleSummary}
    /\ (~API_KEY \/ ~target) => pc \in {"off", "load", "main", "exit1"}

\* C8's case: the API call failed and the summary of an earlier run is
\* still what it was.
C8_Witness ==
    /\ pc = "crashed"
    /\ API_KEY /\ target
    /\ summary = StaleSummary

\* Where the index lists the file at (dir, name): the <<section, bullet>>
\* positions.
listed_at(dir, name) ==
    { p \in (1..Len(index.sections)) \X (1..MaxFiles + 1) :
        /\ p[2] <= Len(index.sections[p[1]].items)
        /\ index.sections[p[1]].items[p[2]].file = [dir |-> dir, name |-> name] }

\* The first path segment of a file below docs/ ("" for a file in docs/).
first_segment(f) == IF f.dir = <<>> THEN "" ELSE f.dir[1]

\* C9 (as claimed): the index lists every Markdown file under docs/ but the
\* generated index file itself exactly once, under the group of its first
\* path segment, the groups in ascending order and the bullets of a group in
\* ascending order of the lower-cased title.
C9_IndexListsEveryFileOnce ==
    index.ran
    => /\ \A f \in index.of :
            (ends_with_md(f.name) /\ ~is_output(f))
            => /\ Cardinality(listed_at(f.dir, f.name)) = 1
               /\ \A p \in listed_at(f.dir, f.name) :
                     index.sections[p[1]].section = first_segment(f)
       /\ \A i \in 1..Len(index.sections) :
            /\ i > 1 => rank(index.sections[i - 1].section) < rank(index.sections[i].section)
            /\ \A j \in 2..Len(index.sections[i].items) :
                  str_le(lower(index.sections[i].items[j - 1].title),
                         lower(index.sections[i].items[j].title))

\* The keys a merge leaves: those of `old` in their places, then those of
\* `set` (in the order set) that `old` did not have.
merged_keys(old, set) ==
    dict_keys(old)
        \o SelectSeq(set, LAMBDA k : \A i \in 1..Len(old) : old[i].key # k)

\* Every key of `old` but those of `set` has its value in `new`.
others_kept(old, new, set) ==
    \A i \in 1..Len(old) :
        (\A j \in 1..Len(set) : set[j] # old[i].key)
        => (dict_has(new, old[i].key) /\ dict_get(new, old[i].key) = old[i].val)

\* C10: when the updater sets `updated`, and when the summarizer sets
\* `generated`, `source` and `type` on the decoded metadata, the text written
\* lists the old keys in their old order, each new key after them, no key
\* twice; the keys set have their new values and every other key its old one.
C10_MergeKeepsInsertionOrder ==
    /\ ( /\ script = "update_timestamps"
         /\ calls # <<>>
         /\ last_call.wrote
         /\ decodes_to_mapping(last_call.before) )
       => LET old == updater_load(last_call.before).dict
              new == extract_frontmatter(file).meta
          IN  /\ keys_listed(file) = merged_keys(old, <<"updated">>)
              /\ dict_keys(new) = keys_listed(file)
              /\ dict_get(new, "updated") = PyStr(DayStr(last_call.day))
              /\ others_kept(old, new, <<"updated">>)
    /\ (script = "chatgpt_summary" /\ pc = "done")
       => LET old == locals.metadata
              new == extract_frontmatter(summary.text).meta
              set == <<"generated", "source", "type">>
          IN  /\ keys_listed(summary.text) = merged_keys(old, set)
              /\ dict_keys(new) = keys_listed(summary.text)
              /\ dict_get(new, "generated") = PyTrue
              /\ dict_get(new, "source") = PyStr(SourceName)
              /\ dict_get(new, "type") = PyStr("summary")
              /\ others_kept(old, new, set)

\* C10's case: the summarizer wrote a summary for a file whose metadata had
\* `type` before `title`: `type` is overwritten where it stood.
C10_Witness ==
    /\ script = "chatgpt_summary"
    /\ pc = "done"
    /\ dict_keys(locals.metadata) = <<"type", "title">>
    /\ keys_listed(summary.text) = <<"type", "title", "generated", "source">>

====
